---- MODULE Spec2Model ----
(***************************************************************************)
(* Model of src/main.py (RUSolar dashboard): the CAN ingest thread         *)
(* (CANWorker), the host status frame (get_raspi5_status_snapshot), the    *)
(* GUI thread's slots (MainWindow / MainDashboardWindow / CANLoggerWindow) *)
(* and the shutdown path (MainWindow.closeEvent, ButtonWatcher).           *)
(*                                                                         *)
(* Number representation.  Python floats are modelled in fixed point:      *)
(*   - a decoded float32 is [k |-> "num", n |-> N] with value N / FScale,  *)
(*     or [k |-> "nan"], or [k |-> "inf", s |-> +1/-1] (infinities and     *)
(*     finite values of magnitude >= 2^BigExp, which saturate alike);      *)
(*   - a speed percentage is kept in units of 1/(FScale*MAX_SPEED) %;      *)
(*   - mph is kept in units of 1/(FScale*100) mph;                         *)
(*   - Wh is kept in units of 1/100 Wh;                                    *)
(*   - host temperature, RAM% and CPU% are in tenths, voltage in           *)
(*     hundredths of a volt, the log size in bytes.                        *)
(***************************************************************************)
EXTENDS Integers, Sequences, FiniteSets, TLC

\* ------------------------------------------------------------------------
\* Program constants (src/main.py:25-40, 540)
\* ------------------------------------------------------------------------
MAX_SPEED == 16
MAX_SOC == 4471
ENV_CAN_ID == 268
SPEED_CAN_ID == 269
SOC_CAN_ID == 256
SOC_DATA_INDEX == 6
RASPI5_STATUS_CAN_ID == 270
SWITCH_PAGE == 1
limit == 20

\* ------------------------------------------------------------------------
\* Bounds of the model
\* ------------------------------------------------------------------------
MaxRecv == 2
MaxPress == 1

RECURSIVE Pow2(_)
Pow2(e) == IF e <= 0 THEN 1 ELSE 2 * Pow2(e - 1)

\* Fixed-point scale of a decoded float32 (a power of two, so that the
\* floats used in the frames below are exact).
FScale == Pow2(4)
\* log2 of the magnitude from which a finite float32 is treated as "inf".
BigExp == 16

None == [k |-> "None"]

\* int(x) rounding to the nearest integer instead of truncating.
PyInt_Rounds(n, scale) == (2 * n + scale) \div (2 * scale)

\* Python int(x) for a fixed-point x = n / scale: truncation toward zero.
PyInt(n, scale) == IF n >= 0 THEN n \div scale ELSE -((-n) \div scale)

\* Python  x & 0xFF  on an (unbounded, two's complement) int.
And0xFF(x) == x % 256

\* Python slice data[a:b] (0-based, b exclusive, clipped to the length).
Slice(data, a, b) ==
  LET hi == IF b < Len(data) THEN b ELSE Len(data)
  IN  IF a >= hi THEN <<>> ELSE [i \in 1..(hi - a) |-> data[a + i]]

\* ------------------------------------------------------------------------
\* struct.unpack('<f', bytes(b))[0]
\* ------------------------------------------------------------------------
StructError == [k |-> "struct.error"]
IndexError == [k |-> "IndexError"]
AttributeError == [k |-> "AttributeError"]
TypeError == [k |-> "TypeError"]
OSError == [k |-> "OSError"]
ValueError == [k |-> "ValueError"]

NaN == [k |-> "nan"]
Inf(s) == [k |-> "inf", s |-> s]
Num(n) == [k |-> "num", n |-> n]

\* Little-endian IEEE-754 binary32.  b is a sequence of bytes; anything
\* but exactly 4 bytes raises struct.error.
unpack_f(b) ==
  IF Len(b) # 4 THEN StructError
  ELSE LET sign == IF b[4] >= 128 THEN -1 ELSE 1
           ex   == (b[4] % 128) * 2 + (b[3] \div 128)
           mant == (b[3] % 128) * 65536 + b[2] * 256 + b[1]
           \* value = (2^23 + mant) * 2^(ex - 150); in 1/FScale units the
           \* exponent is ex - 146 (FScale = 2^4).
           sh   == ex - 146
       IN  IF ex = 255 THEN (IF mant = 0 THEN Inf(sign) ELSE NaN)
           ELSE IF ex = 0 THEN Num(0)   \* zero and subnormals (< 2^-126)
           ELSE IF ex - 127 >= BigExp THEN Inf(sign)
           ELSE IF sh >= 0 THEN Num(sign * (8388608 + mant) * Pow2(sh))
           ELSE IF sh < -24 THEN Num(0)
           ELSE Num(sign * ((8388608 + mant) \div Pow2(-sh)))

\* ------------------------------------------------------------------------
\* Utility functions (src/main.py:54-59)
\* ------------------------------------------------------------------------
\* a < b on Python floats: every comparison with NaN is False.
FLt(a, b) ==
  IF a.k = "nan" \/ b.k = "nan" THEN FALSE
  ELSE IF a.k = "inf" THEN (a.s = -1 /\ ~(b.k = "inf" /\ b.s = -1))
  ELSE IF b.k = "inf" THEN b.s = 1
  ELSE a.n < b.n

\* Python min(a, b): a unless b < a.  Python max(a, b): a unless b > a.
PyMin(a, b) == IF FLt(b, a) THEN b ELSE a
PyMax(a, b) == IF FLt(a, b) THEN b ELSE a

\* clamp with max and min exchanged.
clamp_Swapped(value, min_value, max_value) == PyMin(min_value, PyMax(value, max_value))

\* clamp(value, min_value, max_value) = max(min_value, min(value, max_value))
clamp(value, min_value, max_value) == PyMax(min_value, PyMin(value, max_value))

\* value * c for a float value and a positive fixed-point constant c.
FMul(v, c) == IF v.k = "num" THEN Num(v.n * c) ELSE v

\* ms2mph(speed) = speed * 2.24, result in 1/(FScale*100) mph.
ms2mph(speed) == FMul(speed, 224)

\* ------------------------------------------------------------------------
\* Host metrics (src/main.py:61-106)
\* ------------------------------------------------------------------------
IsNone(x) == x.k = "None"

\* What a vcgencmd call produces: None when the command fails
\* (CalledProcessError), otherwise its stripped stdout, abstracted to the
\* cases the parsers distinguish.  v is the number after '=' as Num(n), or
\* None when that text is not a number.
VcFailed == None
VcEmpty == [k |-> "text", eq |-> FALSE, empty |-> TRUE, v |-> None]
VcNoEquals == [k |-> "text", eq |-> FALSE, empty |-> FALSE, v |-> None]
VcNotNumeric == [k |-> "text", eq |-> TRUE, empty |-> FALSE, v |-> None]
VcValue(n) == [k |-> "text", eq |-> TRUE, empty |-> FALSE, v |-> Num(n)]

\* get_raspi5_temp / get_raspi5_voltage: the float after '=', or None.
ParseVc(out) ==
  IF IsNone(out) THEN None
  ELSE IF out.empty THEN None
  ELSE IF ~out.eq THEN None          \* IndexError
  ELSE IF IsNone(out.v) THEN None    \* ValueError
  ELSE out.v

get_raspi5_temp(out) == ParseVc(out)
get_raspi5_voltage(out) == ParseVc(out)

\* The five values get_raspi5_status_snapshot gathers from the probes'
\* raw outcomes: each Num(n) or None.
Gathered(h) ==
  [temp    |-> get_raspi5_temp(h.temp_out),
   voltage |-> get_raspi5_voltage(h.volt_out),
   ram     |-> h.ram,
   cpu     |-> h.cpu,
   size    |-> h.size]

\* data[0] is an element of a fresh bytearray(8): the int 0, never None.
ByteIsNotNone(b) == TRUE

\* int(x) & 0xFF for a gathered value x with `scale` units per 1;
\* int(None) raises TypeError, reported as -1.
IntByte(x, mul, scale) ==
  IF IsNone(x) THEN -1 ELSE And0xFF(PyInt(x.n * mul, scale))

\* The packing part of get_raspi5_status_snapshot.  s holds the five
\* gathered values.  The result is [err |-> None, data |-> the 8 bytes], or
\* [err |-> TypeError] when int(None) is evaluated.
PackStatus(s) ==
  LET data == [i \in 1..8 |-> 0]
      d0 == IF ByteIsNotNone(data[1]) THEN IntByte(s.temp, 1, 10) ELSE 0
      d1 == IF ~IsNone(s.voltage) THEN IntByte(s.voltage, 10, 100) ELSE 0
      d2 == IF ~IsNone(s.ram) THEN IntByte(s.ram, 1, 10) ELSE 0
      d3 == IF ~IsNone(s.cpu) THEN IntByte(s.cpu, 1, 10) ELSE 0
      mb == IF ~IsNone(s.size) THEN s.size.n \div (1024 * 1024) ELSE 0
      d4 == IF ~IsNone(s.size) THEN And0xFF(mb \div 256) ELSE data[5]
      d5 == IF ~IsNone(s.size) THEN And0xFF(mb) ELSE data[6]
  IN  IF d0 = -1 THEN [err |-> TypeError, data |-> <<>>]
      ELSE [err |-> None, data |-> <<d0, d1, d2, d3, d4, d5, 0, 0>>]

\* get_raspi5_status_snapshot on the raw outcomes h of the five probes.
get_raspi5_status_snapshot(h) == PackStatus(Gathered(h))

Host(t, v, r, c, z) ==
  [k |-> "host", temp_out |-> t, volt_out |-> v, ram |-> r, cpu |-> c, size |-> z]

\* ------------------------------------------------------------------------
\* Frames (can.Message) and the pages' slots (src/main.py:477-551)
\* ------------------------------------------------------------------------
Message(id, data) == [k |-> "msg", id |-> id, data |-> data]

\* Units of a speed percentage: value * 100 / MAX_SPEED of a float kept in
\* 1/FScale is n * 100 in 1/(FScale * MAX_SPEED).
PctScale == FScale * MAX_SPEED

DashInit ==
  [soc_value |-> Num(0), soc_label |-> Num(0),
   speed_value |-> Num(0), speed_label |-> Num(0),
   cabin_temp |-> Num(0), trunk_temp |-> Num(0)]

\* One call of a meter's update_value: the meter, the value passed and the
\* number of units of `value` per percent.
Call(meter, value, scale) == [meter |-> meter, value |-> value, scale |-> scale]

IsErr(x) == x.k = "struct.error"

Raised(d, e) == [dash |-> d, err |-> e, calls |-> <<>>]

\* handle_can_message reading the SOC from byte 0 (as its comment says).
soc_of_byte0(data) == data[1]

\* soc = data[SOC_DATA_INDEX]
soc_of(data) == data[SOC_DATA_INDEX + 1]

\* handle_can_message treating an id it does not know as an error.
IgnoreFrame_Raises(d, msg) == Raised(d, ValueError)

\* handle_can_message when no branch matches the id: nothing happens.
IgnoreFrame(d, msg) == [dash |-> d, err |-> None, calls |-> <<>>]

\* MainDashboardWindow.handle_can_message(msg) on a page whose meters hold
\* d: the meters afterwards, the exception raised (or None) and the
\* update_value calls made.
DashboardHandle(d, msg) ==
  IF IsNone(msg) THEN Raised(d, AttributeError)     \* None.arbitration_id
  ELSE
  LET data == msg.data IN
  IF msg.id = ENV_CAN_ID THEN
    LET value1 == unpack_f(Slice(data, 0, 4))
        value2 == unpack_f(Slice(data, 4, 8))
    IN  IF IsErr(value1) \/ IsErr(value2)
        THEN Raised(d, StructError)
        ELSE [dash |-> [d EXCEPT !.cabin_temp = value1, !.trunk_temp = value2],
              err |-> None, calls |-> <<>>]
  ELSE IF msg.id = SPEED_CAN_ID THEN
    LET value == unpack_f(Slice(data, 0, 4)) IN
    IF IsErr(value) THEN Raised(d, StructError)
    ELSE LET percentage == clamp(FMul(value, 100), Num(0), Num(100 * PctScale))
             mph == ms2mph(value)
         IN  [dash |-> [d EXCEPT !.speed_value = percentage, !.speed_label = mph],
              err |-> None,
              calls |-> <<Call("speed", percentage, PctScale)>>]
  ELSE IF msg.id = SOC_CAN_ID THEN
    IF Len(data) <= SOC_DATA_INDEX THEN Raised(d, IndexError)
    ELSE LET soc == soc_of(data)
             percentage == Num(soc)
             val == Num(soc * MAX_SOC)      \* (percentage / 100) * MAX_SOC
         IN  [dash |-> [d EXCEPT !.soc_value = percentage, !.soc_label = val],
              err |-> None,
              calls |-> <<Call("soc", percentage, 1)>>]
  ELSE IgnoreFrame(d, msg)

\* CANLoggerWindow.handle_can_message popping the newest label,
\* labels.pop(), once the limit is exceeded.
LoggerHandle_PopsNewest(labels, msg) ==
  LET added == Append(labels, msg)
  IN  IF Len(added) > limit THEN SubSeq(added, 1, Len(added) - 1) ELSE added

\* CANLoggerWindow.handle_can_message(msg): the labels afterwards.
LoggerHandle(labels, msg) ==
  LET added == Append(labels, msg)
  IN  IF Len(added) > limit THEN Tail(added) ELSE added

\* ------------------------------------------------------------------------
\* Inputs of the ingest loop
\* ------------------------------------------------------------------------
\* float32 little-endian encodings
F32_0 == <<0, 0, 0, 0>>
F32_Half == <<0, 0, 0, 63>>
F32_1 == <<0, 0, 128, 63>>
F32_2 == <<0, 0, 0, 64>>
F32_8 == <<0, 0, 0, 65>>
F32_12_25 == <<0, 0, 68, 65>>
F32_16 == <<0, 0, 128, 65>>
F32_20 == <<0, 0, 160, 65>>
F32_Neg4 == <<0, 0, 128, 192>>
F32_1e6 == <<0, 36, 116, 73>>
F32_NaN == <<0, 0, 192, 127>>
F32_Inf == <<0, 0, 128, 127>>
F32_NegInf == <<0, 0, 128, 255>>

\* Frames the transport returns in the loop specification: a speed frame,
\* a pack-SOC frame whose SOC byte is above 100 and a truncated speed frame.
LoopFrames ==
  { Message(SPEED_CAN_ID, F32_8 \o F32_0),
    Message(SOC_CAN_ID, <<0, 0, 0, 0, 0, 0, 200, 0>>),
    Message(SPEED_CAN_ID, <<0, 0>>) }

\* Probe outcomes in the loop specification: all metrics available
\* (45.7 C, 5.10 V, 30.0 %, 12.0 %, 2 MiB), or vcgencmd measure_temp failing.
LoopHosts ==
  { Host(VcValue(457), VcValue(510), Num(300), Num(120), Num(2097152)),
    Host(VcFailed, VcValue(510), Num(300), Num(120), Num(2097152)) }

\* ------------------------------------------------------------------------
\* State
\* ------------------------------------------------------------------------
VARIABLES
  running,        \* CANWorker._running
  wpc,            \* where CANWorker.run is
  msg,            \* run's local msg
  raspi5_data,    \* run's local raspi5_data
  host,           \* the probe outcomes of the last status sample
  log,            \* lines of CAN_LOG_FILEPATH
  bus_shutdowns,  \* number of bus.shutdown() calls
  finished,       \* CANWorker.finished has been emitted
  exc,            \* the exception that ended CANWorker.run, or None
  gpc,            \* where the GUI thread is
  events,         \* queued signal deliveries to the GUI thread
  toogle_page,    \* MainWindow.toogle_page
  current_widget, \* class of MainWindow.stack.currentWidget()
  dash,           \* meters of the current MainDashboardWindow
  labels,         \* labels of the current CANLoggerWindow
  slot_err,       \* exception raised by the last slot, or None
  calls,          \* update_value calls made by the last slot
  handled,        \* messages MainWindow.handle_can_message has handled,
                  \* each with the class of the page that handled it
  last_slot,      \* the slot the GUI thread ran last
  bw_running,     \* ButtonWatcher._running
  bpc,            \* where ButtonWatcher.run is
  button_closed,  \* switching_page_button.close() has been called
  \* history
  n_recv,         \* bus.recv() calls started
  recv_after_stop,\* bus.recv() calls started after stop()
  stop_in_running,\* stop() was called while run was in its loop
  n_send,         \* bus.send() calls
  n_emit,         \* new_message emissions of the worker
  n_press,        \* button presses
  trace,          \* frames received and frames sent, in order
  log_failed,     \* an append to the log has failed
  can_errors,     \* can.CanError reports printed by send_can_message
  n_sample,       \* get_raspi5_status_snapshot() calls
  stack           \* classes of the widgets in MainWindow.stack, the
                  \* current widget first

wvars == <<running, wpc, msg, raspi5_data, host, log, bus_shutdowns, finished, exc>>
pagevars == <<toogle_page, current_widget, stack, dash, labels, slot_err, calls, handled, last_slot>>
gvars == <<gpc, events, pagevars>>
bvars == <<bw_running, bpc, button_closed>>
hvars == <<n_recv, recv_after_stop, stop_in_running, n_send, n_emit, n_press, trace, log_failed>>
h2vars == <<can_errors, n_sample>>
vars == <<wvars, gvars, bvars, hvars, h2vars>>

\* Positions of CANWorker.run inside its while loop.
LoopPcs == {"loop", "call_recv", "recv", "emit", "status", "send"}

\* MainWindow.__init__ (src/main.py:590-610) and the threads' __init__.
Init ==
  /\ running = TRUE
  /\ wpc = "loop"
  /\ msg = None
  /\ raspi5_data = <<>>
  /\ host = None
  /\ log = <<>>
  /\ bus_shutdowns = 0
  /\ finished = FALSE
  /\ exc = None
  /\ gpc = "loop"
  /\ events = <<>>
  /\ toogle_page = TRUE
  /\ current_widget = "MainDashboardWindow"
  /\ stack = <<"MainDashboardWindow">>
  /\ dash = DashInit
  /\ labels = <<>>
  /\ slot_err = None
  /\ calls = <<>>
  /\ handled = <<>>
  /\ last_slot = "none"
  /\ bw_running = TRUE
  /\ bpc = "loop"
  /\ button_closed = FALSE
  /\ n_recv = 0
  /\ recv_after_stop = 0
  /\ stop_in_running = FALSE
  /\ n_send = 0
  /\ n_emit = 0
  /\ n_press = 0
  /\ trace = <<>>
  /\ log_failed = FALSE
  /\ can_errors = 0
  /\ n_sample = 0

\* ------------------------------------------------------------------------
\* CANWorker (src/main.py:177-229)
\* ------------------------------------------------------------------------
\* log_can_message opening the file with "w": every write replaces the log.
log_can_message_truncating(l, m) == <<m>>

\* log_can_message(msg) when open(..., "a") and write succeed: one more line.
log_can_message(l, m) == Append(l, m)

\* The thread dies with exception e: nothing after the raising statement
\* runs (no bus.shutdown(), no finished.emit()).
Raise(e) ==
  /\ wpc' = "crashed"
  /\ exc' = e

\* while self._running:
RunLoopCheck ==
  /\ wpc = "loop"
  /\ wpc' = IF running THEN "call_recv" ELSE "shutdown"
  /\ UNCHANGED <<running, msg, raspi5_data, host, log, bus_shutdowns, finished, exc>>
  /\ UNCHANGED <<gvars, bvars, hvars, h2vars>>

\* read_can_message: bus.recv() is entered and blocks.
CallRecv ==
  /\ wpc = "call_recv"
  /\ n_recv < MaxRecv
  /\ wpc' = "recv"
  /\ n_recv' = n_recv + 1
  /\ recv_after_stop' = IF running THEN recv_after_stop ELSE recv_after_stop + 1
  /\ UNCHANGED <<running, msg, raspi5_data, host, log, bus_shutdowns, finished, exc>>
  /\ UNCHANGED <<gvars, bvars>>
  /\ UNCHANGED <<stop_in_running, n_send, n_emit, n_press, trace, log_failed>>
  /\ UNCHANGED h2vars

\* read_can_message: bus.recv() returns m (a frame or None); a frame is
\* appended to the log, and an OSError of that append leaves run.
ReadCanMessage(m, logOk) ==
  /\ wpc = "recv"
  /\ msg' = m
  /\ IF IsNone(m)
     THEN /\ logOk
          /\ wpc' = "emit"
          /\ UNCHANGED <<log, exc, trace, log_failed>>
     ELSE /\ trace' = Append(trace, [e |-> "rx", m |-> m, logged |-> logOk])
          /\ IF logOk
             THEN /\ log' = log_can_message(log, m)
                  /\ wpc' = "emit"
                  /\ UNCHANGED <<exc, log_failed>>
             ELSE /\ Raise(OSError)
                  /\ log_failed' = TRUE
                  /\ UNCHANGED log
  /\ UNCHANGED <<running, raspi5_data, host, bus_shutdowns, finished>>
  /\ UNCHANGED <<gvars, bvars>>
  /\ UNCHANGED <<n_recv, recv_after_stop, stop_in_running, n_send, n_emit, n_press>>
  /\ UNCHANGED h2vars

\* new_message deliveries queued in front of the pending ones.
EmitNewMessage_Prepends ==
  /\ wpc = "emit"
  /\ events' = <<[sig |-> "can", arg |-> msg]>> \o events
  /\ n_emit' = n_emit + 1
  /\ wpc' = "status"
  /\ UNCHANGED <<running, msg, raspi5_data, host, log, bus_shutdowns, finished, exc>>
  /\ UNCHANGED <<gpc, pagevars>>
  /\ UNCHANGED bvars
  /\ UNCHANGED <<n_recv, recv_after_stop, stop_in_running, n_send, n_press, trace, log_failed>>
  /\ UNCHANGED h2vars

\* self.new_message.emit(msg): queued to the GUI thread.
EmitNewMessage ==
  /\ wpc = "emit"
  /\ events' = Append(events, [sig |-> "can", arg |-> msg])
  /\ n_emit' = n_emit + 1
  /\ wpc' = "status"
  /\ UNCHANGED <<running, msg, raspi5_data, host, log, bus_shutdowns, finished, exc>>
  /\ UNCHANGED <<gpc, pagevars>>
  /\ UNCHANGED bvars
  /\ UNCHANGED <<n_recv, recv_after_stop, stop_in_running, n_send, n_press, trace, log_failed>>
  /\ UNCHANGED h2vars

\* raspi5_data = get_raspi5_status_snapshot(), the probes answering h.
StatusSnapshot(h) ==
  /\ wpc = "status"
  /\ host' = h
  /\ LET r == get_raspi5_status_snapshot(h)
     IN  IF IsNone(r.err)
         THEN /\ raspi5_data' = r.data
              /\ wpc' = "send"
              /\ UNCHANGED exc
         ELSE /\ Raise(r.err)
              /\ UNCHANGED raspi5_data
  /\ UNCHANGED <<running, msg, log, bus_shutdowns, finished>>
  /\ UNCHANGED <<gvars, bvars, hvars>>
  /\ n_sample' = n_sample + 1
  /\ UNCHANGED can_errors

\* send_can_message writing the log line before bus.send: a frame whose
\* send fails is in the log.
SendCanMessage_LogsBeforeSend(sendOk, logOk) ==
  /\ wpc = "send"
  /\ n_send' = n_send + 1
  /\ LET m == Message(RASPI5_STATUS_CAN_ID, raspi5_data)
     IN  IF ~logOk
         THEN /\ sendOk
              /\ trace' = Append(trace, [e |-> "tx", m |-> m, logged |-> FALSE])
              /\ Raise(OSError)
              /\ log_failed' = TRUE
              /\ UNCHANGED log
         ELSE /\ log' = log_can_message(log, m)
              /\ wpc' = "loop"
              /\ trace' = IF sendOk
                          THEN Append(trace, [e |-> "tx", m |-> m, logged |-> TRUE])
                          ELSE trace
              /\ UNCHANGED <<exc, log_failed>>
  /\ UNCHANGED <<running, msg, raspi5_data, host, bus_shutdowns, finished>>
  /\ UNCHANGED <<gvars, bvars>>
  /\ UNCHANGED <<n_recv, recv_after_stop, stop_in_running, n_emit, n_press>>
  /\ can_errors' = IF sendOk THEN can_errors ELSE can_errors + 1
  /\ UNCHANGED n_sample

\* send_can_message(RASPI5_STATUS_CAN_ID, raspi5_data): bus.send succeeds
\* or raises can.CanError (caught); after a successful send the frame is
\* appended to the log, and an OSError of that append is not caught.
SendCanMessage(sendOk, logOk) ==
  /\ wpc = "send"
  /\ n_send' = n_send + 1
  /\ LET m == Message(RASPI5_STATUS_CAN_ID, raspi5_data)
     IN  IF ~sendOk
         THEN /\ logOk
              /\ wpc' = "loop"
              /\ UNCHANGED <<log, exc, trace, log_failed>>
         ELSE /\ trace' = Append(trace, [e |-> "tx", m |-> m, logged |-> logOk])
              /\ IF logOk
                 THEN /\ log' = log_can_message(log, m)
                      /\ wpc' = "loop"
                      /\ UNCHANGED <<exc, log_failed>>
                 ELSE /\ Raise(OSError)
                      /\ log_failed' = TRUE
                      /\ UNCHANGED log
  /\ UNCHANGED <<running, msg, raspi5_data, host, bus_shutdowns, finished>>
  /\ UNCHANGED <<gvars, bvars>>
  /\ UNCHANGED <<n_recv, recv_after_stop, stop_in_running, n_emit, n_press>>
  /\ can_errors' = IF sendOk THEN can_errors ELSE can_errors + 1
  /\ UNCHANGED n_sample

\* bus.shutdown()
BusShutdown ==
  /\ wpc = "shutdown"
  /\ bus_shutdowns' = bus_shutdowns + 1
  /\ wpc' = "finish"
  /\ UNCHANGED <<running, msg, raspi5_data, host, log, finished, exc>>
  /\ UNCHANGED <<gvars, bvars, hvars, h2vars>>

\* finished.emit() placed before bus.shutdown().
EmitFinished_BeforeShutdown ==
  /\ wpc = "shutdown"
  /\ ~finished
  /\ finished' = TRUE
  /\ UNCHANGED <<running, wpc, msg, raspi5_data, host, log, bus_shutdowns, exc>>
  /\ UNCHANGED <<gvars, bvars, hvars, h2vars>>

\* self.finished.emit(); run returns.
EmitFinished ==
  /\ wpc = "finish"
  /\ finished' = TRUE
  /\ wpc' = "stopped"
  /\ UNCHANGED <<running, msg, raspi5_data, host, log, bus_shutdowns, exc>>
  /\ UNCHANGED <<gvars, bvars, hvars, h2vars>>

\* ------------------------------------------------------------------------
\* ButtonWatcher (src/main.py:152-175)
\* ------------------------------------------------------------------------
\* on_switching_button_press: the button's callback emits new_message.
ButtonPress ==
  /\ ~button_closed
  /\ n_press < MaxPress
  /\ n_press' = n_press + 1
  /\ events' = Append(events, [sig |-> "button", arg |-> Num(SWITCH_PAGE)])
  /\ UNCHANGED <<gpc, pagevars>>
  /\ UNCHANGED <<wvars, bvars>>
  /\ UNCHANGED <<n_recv, recv_after_stop, stop_in_running, n_send, n_emit, trace, log_failed>>
  /\ UNCHANGED h2vars

\* ButtonWatcher.run: the loop sees _running false, run emits finished
\* and returns.
ButtonWatcherRun ==
  /\ bpc = "loop"
  /\ ~bw_running
  /\ bpc' = "stopped"
  /\ UNCHANGED <<bw_running, button_closed>>
  /\ UNCHANGED <<wvars, gvars, hvars, h2vars>>

\* ------------------------------------------------------------------------
\* MainWindow (src/main.py:553-655)
\* ------------------------------------------------------------------------
\* handle_button_press that keeps the old page in the stack.
removeWidget_Keeps(st) == st

\* QStackedLayout.removeWidget(currentWidget()): the current widget (the
\* first) leaves the stack; the next one, if any, becomes current.
removeWidget(st) == Tail(st)

\* QStackedLayout.addWidget(w): w is appended; it becomes the current
\* widget only if the stack was empty.
addWidget(st, w) == Append(st, w)

\* QStackedLayout.currentWidget(): the class of the current widget, or
\* "NoneType" for an empty stack.
currentWidget(st) == IF st = <<>> THEN "NoneType" ELSE st[1]

\* MainWindow.handle_can_message, the slot of CANWorker.new_message.
HandleCanMessage ==
  /\ gpc = "loop"
  /\ events # <<>>
  /\ Head(events).sig = "can"
  /\ events' = Tail(events)
  /\ handled' = Append(handled, [m |-> Head(events).arg, page |-> current_widget])
  /\ last_slot' = "can"
  /\ LET m == Head(events).arg IN
     IF current_widget = "MainDashboardWindow"
     THEN LET r == DashboardHandle(dash, m)
          IN  /\ dash' = r.dash
              /\ slot_err' = r.err
              /\ calls' = r.calls
              /\ UNCHANGED labels
     ELSE IF current_widget = "CANLoggerWindow"
     THEN /\ labels' = LoggerHandle(labels, m)
          /\ slot_err' = None
          /\ calls' = <<>>
          /\ UNCHANGED dash
     ELSE /\ slot_err' = ValueError
          /\ calls' = <<>>
          /\ UNCHANGED <<dash, labels>>
  /\ UNCHANGED <<gpc, toogle_page, current_widget, stack>>
  /\ UNCHANGED <<wvars, bvars, hvars, h2vars>>

\* MainWindow.handle_button_press, the slot of ButtonWatcher.new_message:
\* the current page is removed and a fresh page of the other class added.
HandleButtonPress ==
  /\ gpc = "loop"
  /\ events # <<>>
  /\ Head(events).sig = "button"
  /\ events' = Tail(events)
  /\ IF Head(events).arg = Num(SWITCH_PAGE)
     THEN /\ toogle_page' = ~toogle_page
          /\ LET current_page == IF toogle_page' THEN "MainDashboardWindow"
                                                 ELSE "CANLoggerWindow"
             IN  stack' = addWidget(removeWidget(stack), current_page)
          /\ current_widget' = currentWidget(stack')
          /\ dash' = DashInit
          /\ labels' = <<>>
     ELSE UNCHANGED <<toogle_page, current_widget, stack, dash, labels>>
  /\ slot_err' = None
  /\ calls' = <<>>
  /\ last_slot' = "button"
  /\ UNCHANGED <<gpc, handled>>
  /\ UNCHANGED <<wvars, bvars, hvars, h2vars>>

\* closeEvent: self.worker.stop(); self.worker.quit(); then the GUI thread
\* blocks in self.worker.wait().
CloseEvent_StopWorker ==
  /\ gpc = "loop"
  /\ running' = FALSE
  /\ gpc' = "wait_worker"
  /\ stop_in_running' = (wpc \in LoopPcs)
  /\ UNCHANGED <<wpc, msg, raspi5_data, host, log, bus_shutdowns, finished, exc>>
  /\ UNCHANGED <<events, pagevars>>
  /\ UNCHANGED bvars
  /\ UNCHANGED <<n_recv, recv_after_stop, n_send, n_emit, n_press, trace, log_failed>>
  /\ UNCHANGED h2vars

\* closeEvent that also shuts the bus down once the worker has been joined.
CloseEvent_StopButton_ShutsBus ==
  /\ gpc = "wait_worker"
  /\ wpc \in {"stopped", "crashed"}
  /\ bus_shutdowns' = bus_shutdowns + 1
  /\ bw_running' = FALSE
  /\ button_closed' = TRUE
  /\ gpc' = "wait_button"
  /\ UNCHANGED <<running, wpc, msg, raspi5_data, host, log, finished, exc>>
  /\ UNCHANGED <<events, pagevars>>
  /\ UNCHANGED bpc
  /\ UNCHANGED <<hvars, h2vars>>

\* closeEvent: self.worker.wait() returns (the worker thread has ended);
\* self.button_watcher.stop() clears _running and closes the button; then
\* the GUI thread blocks in self.button_watcher.wait().
CloseEvent_StopButton ==
  /\ gpc = "wait_worker"
  /\ wpc \in {"stopped", "crashed"}
  /\ bw_running' = FALSE
  /\ button_closed' = TRUE
  /\ gpc' = "wait_button"
  /\ UNCHANGED wvars
  /\ UNCHANGED <<events, pagevars>>
  /\ UNCHANGED bpc
  /\ UNCHANGED <<hvars, h2vars>>

\* closeEvent: self.button_watcher.wait() returns; event.accept().
CloseEvent_Accept ==
  /\ gpc = "wait_button"
  /\ bpc = "stopped"
  /\ gpc' = "closed"
  /\ UNCHANGED <<events, pagevars>>
  /\ UNCHANGED <<wvars, bvars, hvars, h2vars>>

\* ------------------------------------------------------------------------
\* The program
\* ------------------------------------------------------------------------
Next ==
  \/ RunLoopCheck
  \/ CallRecv
  \/ \E m \in LoopFrames \cup {None}, logOk \in BOOLEAN : ReadCanMessage(m, logOk)
  \/ EmitNewMessage
  \/ \E h \in LoopHosts : StatusSnapshot(h)
  \/ \E sendOk \in BOOLEAN, logOk \in BOOLEAN : SendCanMessage(sendOk, logOk)
  \/ BusShutdown
  \/ EmitFinished
  \/ ButtonPress
  \/ ButtonWatcherRun
  \/ HandleCanMessage
  \/ HandleButtonPress
  \/ CloseEvent_StopWorker
  \/ CloseEvent_StopButton
  \/ CloseEvent_Accept

Spec == Init /\ [][Next]_vars

\* ------------------------------------------------------------------------
\* The status frame on its own: one iteration has received None and
\* emitted it, and get_raspi5_status_snapshot runs on any probe outcome.
\* ------------------------------------------------------------------------
EncTempOuts ==
  { VcFailed, VcEmpty, VcNoEquals, VcNotNumeric,
    VcValue(450), VcValue(457), VcValue(-15), VcValue(2999) }
EncVoltOuts == { VcFailed, VcValue(510), VcValue(85) }
EncSizes == { None, Num(0), Num(1048575), Num(2097152), Num(300 * 1048576) }

EncHosts ==
  { Host(t, v, r, c, z) :
      t \in EncTempOuts, v \in EncVoltOuts,
      r \in {Num(300), Num(1000)}, c \in {Num(120), Num(5)}, z \in EncSizes }

InitEncode ==
  /\ running = TRUE
  /\ wpc = "status"
  /\ msg = None
  /\ raspi5_data = <<>>
  /\ host = None
  /\ log = <<>>
  /\ bus_shutdowns = 0
  /\ finished = FALSE
  /\ exc = None
  /\ gpc = "loop"
  /\ events = <<[sig |-> "can", arg |-> None]>>
  /\ toogle_page = TRUE
  /\ current_widget = "MainDashboardWindow"
  /\ stack = <<"MainDashboardWindow">>
  /\ dash = DashInit
  /\ labels = <<>>
  /\ slot_err = None
  /\ calls = <<>>
  /\ handled = <<>>
  /\ last_slot = "none"
  /\ bw_running = TRUE
  /\ bpc = "loop"
  /\ button_closed = FALSE
  /\ n_recv = 1
  /\ recv_after_stop = 0
  /\ stop_in_running = FALSE
  /\ n_send = 0
  /\ n_emit = 1
  /\ n_press = 0
  /\ trace = <<>>
  /\ log_failed = FALSE
  /\ can_errors = 0
  /\ n_sample = 0

NextEncode == \E h \in EncHosts : StatusSnapshot(h)

EncodeSpec == InitEncode /\ [][NextEncode]_vars

\* ------------------------------------------------------------------------
\* The pages' slots on their own: the worker has received, logged and
\* emitted one frame, which the GUI thread handles on either page.
\* ------------------------------------------------------------------------
DispWords1 ==
  { F32_0, F32_Half, F32_1, F32_2, F32_8, F32_12_25, F32_16, F32_20,
    F32_Neg4, F32_1e6, F32_NaN, F32_Inf, F32_NegInf }
DispWords2 ==
  { F32_2, <<0, 0, 0, 0>>, <<0, 0, 75, 0>>, <<0, 0, 100, 0>>,
    <<0, 0, 101, 0>>, <<7, 9, 255, 3>> }
DispIds == { ENV_CAN_ID, SPEED_CAN_ID, SOC_CAN_ID, RASPI5_STATUS_CAN_ID, 291 }

DispFrames ==
  { Message(id, Slice(w1 \o w2, 0, n)) :
      id \in DispIds, w1 \in DispWords1, w2 \in DispWords2, n \in 0..8 }

InitDispatch ==
  \E m \in DispFrames :
    /\ running = TRUE
    /\ wpc = "status"
    /\ msg = m
    /\ raspi5_data = <<>>
    /\ host = None
    /\ log = <<m>>
    /\ bus_shutdowns = 0
    /\ finished = FALSE
    /\ exc = None
    /\ gpc = "loop"
    /\ events = <<[sig |-> "can", arg |-> m]>>
    /\ toogle_page = TRUE
    /\ current_widget = "MainDashboardWindow"
    /\ stack = <<"MainDashboardWindow">>
    /\ dash = DashInit
    /\ labels = <<>>
    /\ slot_err = None
    /\ calls = <<>>
    /\ handled = <<>>
    /\ last_slot = "none"
    /\ bw_running = TRUE
    /\ bpc = "loop"
    /\ button_closed = FALSE
    /\ n_recv = 1
    /\ recv_after_stop = 0
    /\ stop_in_running = FALSE
    /\ n_send = 0
    /\ n_emit = 1
    /\ n_press = 0
    /\ trace = <<[e |-> "rx", m |-> m, logged |-> TRUE]>>
    /\ log_failed = FALSE
    /\ can_errors = 0
    /\ n_sample = 0

NextDispatch ==
  \/ HandleCanMessage
  \/ ButtonPress
  \/ HandleButtonPress

DispatchSpec == InitDispatch /\ [][NextDispatch]_vars

\* ------------------------------------------------------------------------
\* The logger page under a long run of frames: the worker has received,
\* logged and emitted nBefore + nAfter frames, every status send was
\* refused with can.CanError, and the button was pressed after the first
\* nBefore emissions; the GUI thread has not yet run any slot.
\* ------------------------------------------------------------------------
MaxLogged == 22

\* The i-th frame of a run: one payload byte counting from start by step
\* (step 0: the same frame again and again).
RunFrame(i, id, start, step) == Message(id, <<(start + i * step) % 256>>)

RunIds == { SPEED_CAN_ID, RASPI5_STATUS_CAN_ID }
RunStarts == { 0, 250 }
RunSteps == { 0, 1 }
RunHost == Host(VcValue(457), VcValue(510), Num(300), Num(120), Num(2097152))

InitLogger ==
  \E nBefore \in 0..1, nAfter \in 0..MaxLogged,
     id \in RunIds, start \in RunStarts, step \in RunSteps :
    LET n == nBefore + nAfter
        frames == [i \in 1..n |-> RunFrame(i, id, start, step)]
        queued(i) == [sig |-> "can", arg |-> frames[i]]
    IN  /\ running = TRUE
        /\ wpc = "loop"
        /\ msg = IF n = 0 THEN None ELSE frames[n]
        /\ raspi5_data = IF n = 0 THEN <<>>
                         ELSE get_raspi5_status_snapshot(RunHost).data
        /\ host = IF n = 0 THEN None ELSE RunHost
        /\ log = frames
        /\ bus_shutdowns = 0
        /\ finished = FALSE
        /\ exc = None
        /\ gpc = "loop"
        /\ events = [i \in 1..nBefore |-> queued(i)]
                    \o <<[sig |-> "button", arg |-> Num(SWITCH_PAGE)]>>
                    \o [i \in 1..nAfter |-> queued(nBefore + i)]
        /\ toogle_page = TRUE
        /\ current_widget = "MainDashboardWindow"
        /\ stack = <<"MainDashboardWindow">>
        /\ dash = DashInit
        /\ labels = <<>>
        /\ slot_err = None
        /\ calls = <<>>
        /\ handled = <<>>
        /\ last_slot = "none"
        /\ bw_running = TRUE
        /\ bpc = "loop"
        /\ button_closed = FALSE
        /\ n_recv = n
        /\ recv_after_stop = 0
        /\ stop_in_running = FALSE
        /\ n_send = n
        /\ n_emit = n
        /\ n_press = 1
        /\ trace = [i \in 1..n |-> [e |-> "rx", m |-> frames[i], logged |-> TRUE]]
        /\ log_failed = FALSE
        /\ can_errors = n
        /\ n_sample = n

NextLogger ==
  \/ HandleCanMessage
  \/ HandleButtonPress

LoggerSpec == InitLogger /\ [][NextLogger]_vars

\* ------------------------------------------------------------------------
\* Properties
\* ------------------------------------------------------------------------
\* Positions of run from which it still reaches Stopped without a further
\* loop iteration.
ExitPcs == {"shutdown", "finish", "stopped"}

Last(q) == q[Len(q)]

\* C1: once stop() has been requested while the loop is Running, the loop
\* is finishing its current iteration, having started at most one
\* bus.recv() since the request, or it has left the while loop towards
\* Stopped (bus.shutdown(), finished.emit()); it never ends any other way.
C1_StopReachesStopped ==
  stop_in_running =>
    /\ recv_after_stop <= 1
    /\ wpc \in LoopPcs \cup ExitPcs

\* The part of C1 the code keeps: at most one bus.recv() is started after
\* the stop request, and a loop check that follows the request leaves the
\* loop.
StopBoundsReceives ==
  /\ recv_after_stop <= 1
  /\ (~running /\ recv_after_stop = 1) => wpc # "call_recv"

\* C2: run is outside its while loop only if stop() has been requested
\* (_running is false); bad frames, absent metrics, log-write failures and
\* send failures never end the loop.
C2_LeavesRunningOnlyAfterStop ==
  wpc \notin LoopPcs => ~running

\* C3: building the status frame never fails, whatever metrics are absent,
\* and every absent metric is encoded as 0 in its byte(s).
C3_AbsentMetricsEncodeZero ==
  ~IsNone(host) =>
    /\ IsNone(exc)
    /\ wpc = "send"
    /\ Len(raspi5_data) = 8
    /\ LET g == Gathered(host)
       IN  /\ IsNone(g.temp) => raspi5_data[1] = 0
           /\ IsNone(g.voltage) => raspi5_data[2] = 0
           /\ IsNone(g.ram) => raspi5_data[3] = 0
           /\ IsNone(g.cpu) => raspi5_data[4] = 0
           /\ IsNone(g.size) => (raspi5_data[5] = 0 /\ raspi5_data[6] = 0)

\* The frames of a sequence of trace entries.
RECURSIVE Lines(_)
Lines(t) == IF t = <<>> THEN <<>> ELSE <<Head(t).m>> \o Lines(Tail(t))

IsLogged(entry) == entry.logged

\* C4 (as stated): the log holds exactly one line per received frame and
\* per successfully transmitted status frame, in the order of these events.
C4_LogIsTrace ==
  log = Lines(trace)

\* C4 (amended): the log holds exactly one line per received frame and per
\* successfully transmitted status frame whose append to the log
\* succeeded, in the order of these events.
C4_LogIsLoggedTrace ==
  log = Lines(SelectSeq(trace, IsLogged))

\* Witness of C4: frames were received and a status frame transmitted and
\* logged, and a later append failed.
C4_Witness ==
  /\ Len(log) >= 3
  /\ log_failed
  /\ \E i \in 1..Len(trace) : trace[i].e = "tx" /\ trace[i].logged
  /\ \E i \in 1..Len(trace) : trace[i].e = "rx" /\ trace[i].logged

\* C5: every percentage passed to a meter's update_value is in [0, 100].
C5_PercentInRange ==
  \A i \in 1..Len(calls) :
    /\ calls[i].value.k = "num"
    /\ 0 <= calls[i].value.n
    /\ calls[i].value.n <= 100 * calls[i].scale

\* Bytes the dashboard's decoder of arbitration id `id` needs.
NeededBytes(id) ==
  IF id = ENV_CAN_ID THEN 8
  ELSE IF id = SPEED_CAN_ID THEN 4
  ELSE IF id = SOC_CAN_ID THEN SOC_DATA_INDEX + 1
  ELSE 0

\* C6: the dashboard handling a frame shorter than its decoder needs
\* applies no update and raises no unhandled exception (the outcome is a
\* MalformedFrame error result).
C6_ShortFrameIsMalformedFrame ==
  (/\ last_slot = "can"
   /\ Last(handled).page = "MainDashboardWindow"
   /\ ~IsNone(Last(handled).m)
   /\ Len(Last(handled).m.data) < NeededBytes(Last(handled).m.id)) =>
    /\ calls = <<>>
    /\ dash = DashInit
    /\ slot_err.k \notin {"struct.error", "IndexError"}

\* C7: in an iteration whose bus.recv() returned None the loop stays
\* Running (or leaves only because stop was requested): it goes on through
\* the iteration to the next loop check.
C7_NoneKeepsLoopRunning ==
  (n_recv > 0 /\ IsNone(msg)) =>
    /\ wpc \in LoopPcs \cup ExitPcs
    /\ wpc \in ExitPcs => ~running

C9_StoppedIsTerminal ==
  [][finished =>
       /\ finished'
       /\ wpc' = "stopped"
       /\ UNCHANGED <<n_recv, n_send, n_emit, log, bus_shutdowns, trace>>]_vars

\* Witness of C9: the loop did I/O, emitted finished, and the rest of the
\* program went on (closeEvent completed) afterwards.
C9_Witness ==
  /\ finished
  /\ n_emit >= 1
  /\ Len(log) >= 1
  /\ gpc = "closed"

\* C10: a failed append to the log does not abort frame processing: the
\* loop goes on (emit, status cycle, next receive).
C10_LogFailureDoesNotAbort ==
  log_failed => wpc \in LoopPcs \cup ExitPcs

\* C11: a status transmission that fails with a transport error is
\* reported (once), leaves no line in the log, does not end the loop, and
\* the loop check that follows goes on to the next bus.recv() unless stop
\* has been requested.
C11_SendFailureSkipsLog ==
  [][/\ can_errors' # can_errors =>
          /\ can_errors' = can_errors + 1
          /\ n_send' = n_send + 1
          /\ log' = log
          /\ wpc' = "loop"
          /\ IsNone(exc')
     /\ (wpc = "loop" /\ wpc' # "loop" /\ running) => wpc' = "call_recv"]_vars

\* Witness of C11: the first status transmission failed and the loop has
\* entered its second bus.recv().
C11_Witness ==
  /\ can_errors = 1
  /\ n_send = 1
  /\ n_recv = 2
  /\ wpc = "recv"
  /\ running

IsRx(entry) == entry.e = "rx"
IsFrame(h) == ~IsNone(h.m)
IsRxLine(l) == l.id # RASPI5_STATUS_CAN_ID

\* The frames bus.recv() returned, in order.
RxFrames == Lines(SelectSeq(trace, IsRx))
\* The frames the sink has handled, in order.
HandledFrames == Lines(SelectSeq(handled, IsFrame))
\* The lines of received frames in the log, in order.
LogRxLines == SelectSeq(log, IsRxLine)

IsPrefix(a, b) ==
  /\ Len(a) <= Len(b)
  /\ \A i \in 1..Len(a) : a[i] = b[i]

\* C12: the frames handled by the sink, and the received frames' lines in
\* the log, are the frames bus.recv() returned, in that order, without
\* gaps, repetitions or reordering (each is an initial part of the
\* received sequence), whichever page is current.
C12_ArrivalOrder ==
  /\ IsPrefix(HandledFrames, RxFrames)
  /\ IsPrefix(LogRxLines, RxFrames)
  /\ Len(HandledFrames) <= Len(LogRxLines)

\* Witness of C12: two different frames were received and handled, one
\* before and one after a page switch.
C12_Witness ==
  /\ Len(HandledFrames) = 2
  /\ HandledFrames[1] # HandledFrames[2]
  /\ \E i, j \in 1..Len(handled) : handled[i].page # handled[j].page

TruncTo(q, n, scale) ==
  IF n >= 0 THEN q >= 0 /\ q * scale <= n /\ n < (q + 1) * scale
            ELSE q <= 0 /\ q * scale >= n /\ n > (q - 1) * scale

\* b is the byte q mod 256.
ByteOf(b, q) == b \in 0..255 /\ (q - b) % 256 = 0

\* data[i] is trunc(n / scale) mod 256.
TruncByte(b, n, scale) ==
  \E q \in -400..400 : TruncTo(q, n, scale) /\ ByteOf(b, q)

AllPresent(g) ==
  /\ ~IsNone(g.temp)
  /\ ~IsNone(g.voltage)
  /\ ~IsNone(g.ram)
  /\ ~IsNone(g.cpu)
  /\ ~IsNone(g.size)

\* C14: with all five metrics present the status payload is
\* [trunc(temp) mod 256, trunc(voltage*10) mod 256, trunc(ram) mod 256,
\*  trunc(cpu) mod 256, (MB div 256) mod 256, MB mod 256, 0, 0] with
\* MB = size div 1048576; 45 C, 5.1 V, 30 %, 12 %, 2 MiB give
\* [45, 51, 30, 12, 0, 2, 0, 0].
C14_StatusPayload ==
  (~IsNone(host) /\ AllPresent(Gathered(host))) =>
    LET g == Gathered(host) IN
    /\ wpc = "send"
    /\ Len(raspi5_data) = 8
    /\ TruncByte(raspi5_data[1], g.temp.n, 10)
    /\ TruncByte(raspi5_data[2], g.voltage.n, 10)
    /\ TruncByte(raspi5_data[3], g.ram.n, 10)
    /\ TruncByte(raspi5_data[4], g.cpu.n, 10)
    /\ \E mb \in 0..1000 :
         /\ mb * 1048576 <= g.size.n
         /\ g.size.n < (mb + 1) * 1048576
         /\ \E hi \in 0..3 :
              /\ hi * 256 <= mb /\ mb < (hi + 1) * 256
              /\ raspi5_data[5] = hi
              /\ raspi5_data[6] = mb - hi * 256
    /\ raspi5_data[7] = 0
    /\ raspi5_data[8] = 0
    /\ (/\ g.temp.n = 450 /\ g.voltage.n = 510 /\ g.ram.n = 300
        /\ g.cpu.n = 120 /\ g.size.n = 2097152)
         => raspi5_data = <<45, 51, 30, 12, 0, 2, 0, 0>>

\* Witness of C14: a frame was built from 45.7 C and a 300 MiB log: the
\* temperature is truncated and the high size byte is not 0.
C14_Witness ==
  /\ wpc = "send"
  /\ AllPresent(Gathered(host))
  /\ Gathered(host).temp.n = 457
  /\ Gathered(host).size.n = 300 * 1048576
  /\ raspi5_data[1] = 45
  /\ raspi5_data[5] = 1
  /\ raspi5_data[6] = 44

\* The dashboard has just handled a frame with arbitration id `id`.
DashboardHandled(id) ==
  /\ last_slot = "can"
  /\ Last(handled).page = "MainDashboardWindow"
  /\ IsFrame(Last(handled))
  /\ Last(handled).m.id = id

\* C15: for a speed frame with raw value v (m/s) the percentage passed to
\* the speed meter is v * 100 / 16 saturated to [0, 100] and the label
\* value is v * 2.24 of the unclamped v; v = 8 gives exactly 50 %.
\* (v is in 1/FScale, the percentage in 1/(FScale * 16), mph in
\* 1/(FScale * 100).)
C15_SpeedPercentAndMph ==
  (DashboardHandled(269) /\ Len(Last(handled).m.data) >= 4) =>
    LET data == Last(handled).m.data
        v == unpack_f(<<data[1], data[2], data[3], data[4]>>)
        full == 100 * FScale * 16
    IN  /\ IsNone(slot_err)
        /\ Len(calls) = 1
        /\ calls[1].meter = "speed"
        /\ calls[1].scale = FScale * 16
        /\ dash.speed_value = calls[1].value
        /\ v.k = "num" =>
             /\ calls[1].value.k = "num"
             /\ (v.n * 100 < 0) => calls[1].value.n = 0
             /\ (v.n * 100 > full) => calls[1].value.n = full
             /\ (0 <= v.n * 100 /\ v.n * 100 <= full) => calls[1].value.n = v.n * 100
             /\ dash.speed_label = Num(v.n * 224)
        /\ v.k = "inf" =>
             /\ calls[1].value = Num(IF v.s = 1 THEN full ELSE 0)
             /\ dash.speed_label = v
        /\ <<data[1], data[2], data[3], data[4]>> = <<0, 0, 0, 65>> =>
             /\ calls[1].value = Num(50 * FScale * 16)
             /\ dash.speed_label = Num(8 * 224 * FScale)

\* Witness of C15: a frame carrying 20.0 m/s was handled: the percentage
\* is saturated at 100 and the label is 20 * 2.24 mph.
C15_Witness ==
  /\ DashboardHandled(269)
  /\ Last(handled).m.data = <<0, 0, 160, 65, 0, 0, 0, 64>>
  /\ calls[1].value = Num(100 * FScale * 16)
  /\ dash.speed_label = Num(20 * 224 * FScale)

C17_ReleaseAfterLoopCompletes ==
  /\ bus_shutdowns > 0 => wpc \notin LoopPcs
  /\ button_closed => bpc = "stopped"

\* The part of C17 the code keeps: the bus is shut down only after the
\* ingest loop, and the button is closed only after the worker thread has
\* ended.
ReleaseAfterIngestLoop ==
  /\ bus_shutdowns > 0 => wpc \notin LoopPcs
  /\ button_closed => wpc \in {"stopped", "crashed"}

\* bus.recv() calls that have returned.
n_ret == IF wpc = "recv" THEN n_recv - 1 ELSE n_recv

IsTx(entry) == entry.e = "tx"
IsStatusLine(l) == l.id = RASPI5_STATUS_CAN_ID

\* C18: outside the part of an iteration that follows bus.recv(), every
\* return of bus.recv() has had exactly one status sample and one transmit
\* attempt, and the status frames in the log are exactly the frames whose
\* send succeeded.
C18_OneStatusCyclePerReceive ==
  /\ wpc \notin {"emit", "status", "send"} =>
       /\ n_sample = n_ret
       /\ n_send = n_ret
  /\ \A i \in 1..Len(trace) : IsTx(trace[i]) => trace[i].logged
  /\ SelectSeq(log, IsStatusLine) = Lines(SelectSeq(trace, IsTx))

\* The part of C18 the code keeps: as long as no exception has ended run,
\* the counts agree, and a logged status frame is one whose send succeeded.
StatusCycleWhileAlive ==
  /\ wpc \in {"loop", "call_recv", "recv"} \cup ExitPcs =>
       /\ n_sample = n_ret
       /\ n_send = n_ret
  /\ IsPrefix(SelectSeq(log, IsStatusLine), Lines(SelectSeq(trace, IsTx)))
  /\ n_send = Len(SelectSeq(trace, IsTx)) + can_errors

IsCan(ev) == ev.sig = "can"
IsButton(ev) == ev.sig = "button"

\* C19: whatever new_message carries to the sink is a frame bus.recv()
\* returned, already in the log; None is never emitted or handled.
C19_OnlyLoggedFramesDelivered ==
  /\ \A i \in 1..Len(events) :
       IsCan(events[i]) =>
         /\ ~IsNone(events[i].arg)
         /\ \E j \in 1..Len(log) : log[j] = events[i].arg
  /\ \A i \in 1..Len(handled) :
       /\ IsFrame(handled[i])
       /\ \E j \in 1..Len(log) : log[j] = handled[i].m

\* The part of C19 the code keeps: a frame that is emitted was returned by
\* bus.recv() and logged before.
EmittedFramesAreLogged ==
  /\ \A i \in 1..Len(events) :
       (IsCan(events[i]) /\ ~IsNone(events[i].arg)) =>
         \E j \in 1..Len(log) : log[j] = events[i].arg
  /\ \A i \in 1..Len(handled) :
       IsFrame(handled[i]) => \E j \in 1..Len(log) : log[j] = handled[i].m

\* SWITCH_PAGE events the GUI thread has handled.
PressesHandled == n_press - Len(SelectSeq(events, IsButton))

IsLoggerHandled(h) == h.page = "CANLoggerWindow"

\* The messages the logger page has handled, oldest first.
LoggerMessages ==
  LET hs == SelectSeq(handled, IsLoggerHandled)
  IN  [i \in 1..Len(hs) |-> hs[i].m]

\* The last min(Len(s), n) elements of s, in order.
LastN(s, n) ==
  IF Len(s) <= n THEN s ELSE SubSeq(s, Len(s) - n + 1, Len(s))

\* C21: the logger page shows at most 20 labels, and they are exactly the
\* most recent min(n, 20) of the n messages it handled, in arrival order.
C21_LabelsAreLastTwenty ==
  current_widget = "CANLoggerWindow" =>
    /\ Len(labels) <= 20
    /\ Len(labels) = IF Len(LoggerMessages) < 20 THEN Len(LoggerMessages) ELSE 20
    /\ labels = LastN(LoggerMessages, 20)

\* Witness of C21: the page has handled 22 distinct messages; the two
\* oldest were evicted, one per message, and the third is the first shown.
C21_Witness ==
  /\ current_widget = "CANLoggerWindow"
  /\ Len(LoggerMessages) = 22
  /\ Len(labels) = 20
  /\ labels[1] = LoggerMessages[3]
  /\ labels[20] = LoggerMessages[22]
  /\ labels[1] # labels[2]

====
